---- MODULE Spec2Model ----
(***************************************************************************)
(* BlackRoad Customer Journey Mapper (src/src/customer_journey.py).        *)
(*                                                                         *)
(* The five SQLite tables are the state; every public method of            *)
(* CustomerJourneyMapper is one action; ret holds what the last call       *)
(* returned.  uuid4 identifiers are modelled as fresh values, utcnow() as  *)
(* the value of a logical clock (in days) that advances between calls. ISO *)
(* timestamps compare as strings in chronological order, so they are       *)
(* modelled by the clock value itself.  SQLite does not enforce the        *)
(* FOREIGN KEY clauses (the code never issues PRAGMA foreign_keys=ON).     *)
(* Queries are evaluated the way SQLite evaluates them: a table is scanned  *)
(* in rowid (insertion) order, INSERT OR REPLACE appends the new row, a     *)
(* join is a nested loop over the scans, and ORDER BY keeps rows with equal *)
(* keys in the order the scan produced them.  A stage's serial number and   *)
(* a touchpoint's serial number stand for its rowid as well as for its id.  *)
(*                                                                         *)
(* Every method is also a call that one process makes while no other is    *)
(* inside a call; for callers that run at the same time, record_touchpoint *)
(* and end_session are in addition modelled statement by statement, with   *)
(* calls holding each caller's position and journal the open transaction.  *)
(* Floating point values are modelled bit for bit (binary64).              *)
(***************************************************************************)
EXTENDS Integers, Sequences, FiniteSets, TLC

\* ---- bounds of the model ------------------------------------------------
MaxDefines     == 2
MaxSessions    == 2
MaxTouchpoints == 2
MaxEnds        == 2
MaxClock       == 1
MaxBuckets     == 3
MaxLimit       == 2

\* ---- input domains ------------------------------------------------------
Names        == {"Awareness", "Interest"}
Positions    == {1, 2}
Events       == {"page_view", "search"}
Descriptions == {"", "User discovers brand"}
Customers    == {"cust-001"}
Channels     == {"email"}
Devices      == {"unknown"}
Pages        == {"/home"}
Durations    == {0}
Days         == {0, 1}

\* a session id that start_session never returned
NoSuchSession == 0
\* SQL NULL: the end_time of an open session, the AVG of no value
NULL == -1

VARIABLES funnel_stages, sessions, touchpoints, conversion_paths,
          dropoff_events, stage_ids_issued, clock, ret, journal, calls

vars == <<funnel_stages, sessions, touchpoints, conversion_paths,
          dropoff_events, stage_ids_issued, clock, ret, journal, calls>>

\* the processes that call the mapper
Callers == {"p1", "p2"}
\* no transaction is open
NoJournal == [owner |-> "nobody"]
\* the caller is in no call
Idle == [pc |-> "idle"]
\* the database as committed: what a connection reads that is not inside
\* the open transaction
committed ==
    IF journal = NoJournal
    THEN [funnel_stages |-> funnel_stages, sessions |-> sessions,
          touchpoints |-> touchpoints, conversion_paths |-> conversion_paths,
          dropoff_events |-> dropoff_events]
    ELSE journal

\* ---- helpers ------------------------------------------------------------
\* int(converted)
int(b) == IF b THEN 1 ELSE 0

RECURSIVE scan(_)
\* the rows of table S in rowid order
scan(S) ==
    IF S = {} THEN <<>>
    ELSE LET first == CHOOSE r \in S : \A q \in S : r.id <= q.id
         IN <<first>> \o scan(S \ {first})

RECURSIVE order_by_position(_)
\* ORDER BY position: ascending, rows of equal position as scanned
order_by_position(rows) ==
    IF Len(rows) = 0 THEN <<>>
    ELSE LET lowest == CHOOSE p \in {rows[i].position : i \in 1..Len(rows)} :
                         \A i \in 1..Len(rows) : p <= rows[i].position
             IsLowest(r) == r.position = lowest
             IsHigher(r) == r.position # lowest
         IN SelectSeq(rows, IsLowest) \o order_by_position(SelectSeq(rows, IsHigher))

RECURSIVE distinct(_)
\* SELECT DISTINCT: the first occurrence of every row
distinct(rows) ==
    IF Len(rows) = 0 THEN <<>>
    ELSE LET IsOther(r) == r # Head(rows)
         IN <<Head(rows)>> \o distinct(SelectSeq(Tail(rows), IsOther))

RECURSIVE join(_, _)
\* sep.join(list): strings are sequences of tokens
join(sep, list) ==
    IF Len(list) = 0 THEN <<>>
    ELSE IF Len(list) = 1 THEN <<list[1]>>
    ELSE <<list[1], sep>> \o join(sep, Tail(list))

\* json.dumps(list of strings)
json_dumps(list) == <<"[">> \o join(", ", list) \o <<"]">>

\* path_signature = SEP.join(stages_visited) if stages_visited else "direct";
\* the token " -> " stands for the separator SEP, an arrow (U+2192) between
\* two spaces
path_signature_of(stages_visited) ==
    IF Len(stages_visited) > 0 THEN join(" -> ", stages_visited)
    ELSE <<"direct">>

\* the elements of a sequence
Range(seq) == {seq[i] : i \in 1..Len(seq)}
\* every order in which the rows of S can have been inserted, or can be
\* delivered
Orderings(S) ==
    {o \in [1..Cardinality(S) -> S] :
       \A i, j \in 1..Cardinality(S) : i < j => o[i] # o[j]}

Init ==
    /\ funnel_stages = {}
    /\ sessions = {}
    /\ touchpoints = {}
    /\ conversion_paths = {}
    /\ dropoff_events = {}
    /\ stage_ids_issued = 0
    /\ clock = 0
    /\ ret = [op |-> "init"]
    /\ journal = NoJournal
    /\ calls = [c \in Callers |-> Idle]

\* uuid4() for a conversion path or dropoff event: an identifier no row of
\* the table carries.  Only equality of identifiers is observable, so the
\* model takes the session_id and a serial number among the rows of that
\* session (rows are never deleted, so it is fresh).
uuid4_row(table, session_id) ==
    <<session_id, Cardinality({r \in table : r.session_id = session_id}) + 1>>

\* ---- define_funnel_stage ------------------------------------------------
\* an upsert that updates the row of that name in place, keeping its id
update_stage_in_place(row) ==
    IF \E st \in funnel_stages : st.name = row.name
    THEN {IF st.name = row.name THEN [row EXCEPT !.id = st.id] ELSE st :
            st \in funnel_stages}
    ELSE funnel_stages \cup {row}

\* INSERT OR REPLACE: rows that conflict on PRIMARY KEY id or UNIQUE name are
\* deleted, then the new row is inserted
insert_or_replace_stage(row) ==
    {st \in funnel_stages : st.id # row.id /\ st.name # row.name} \cup {row}

define_funnel_stage(name, position, description, entry_event, exit_event) ==
    /\ LET stage_id == stage_ids_issued + 1
           row == [id |-> stage_id, name |-> name, position |-> position,
                   description |-> description, entry_event |-> entry_event,
                   exit_event |-> exit_event]
       IN /\ stage_ids_issued' = stage_id
          /\ funnel_stages' = insert_or_replace_stage(row)
          /\ ret' = [op |-> "define_funnel_stage", out |-> row]
    /\ UNCHANGED <<sessions, touchpoints, conversion_paths, dropoff_events, clock, journal, calls>>

\* ---- start_session ------------------------------------------------------
start_session(customer_id, channel, device) ==
    /\ LET session_id == Cardinality(sessions) + 1
           now == clock
       IN /\ sessions' = sessions \cup
                {[id |-> session_id, customer_id |-> customer_id,
                  start_time |-> now, end_time |-> NULL, channel |-> channel,
                  device |-> device, converted |-> 0, conversion_value |-> 0]}
          /\ ret' = [op |-> "start_session", out |-> session_id]
    /\ UNCHANGED <<funnel_stages, touchpoints, conversion_paths, dropoff_events,
                   stage_ids_issued, clock, journal, calls>>

\* ---- record_touchpoint --------------------------------------------------
\* the insert with the FOREIGN KEY clause enforced and the error swallowed
insert_touchpoint_checked(row) ==
    IF \E s \in sessions : s.id = row.session_id
    THEN touchpoints \cup {row}
    ELSE touchpoints

\* INSERT INTO touchpoints
insert_touchpoint(row) == touchpoints \cup {row}

\* the lookup without its ORDER BY
stages_for_event_unordered(event_type) ==
    LET Matches(st) == st.entry_event = event_type
    IN SelectSeq(scan(funnel_stages), Matches)

\* SELECT * FROM funnel_stages WHERE entry_event = ? ORDER BY position
stages_for_event(event_type) ==
    LET Matches(st) == st.entry_event = event_type
    IN order_by_position(SelectSeq(scan(funnel_stages), Matches))

record_touchpoint(session_id, customer_id, channel, page, event_type, duration_ms) ==
    /\ LET now == clock
           tp_id == Cardinality(touchpoints) + 1
           tp == [id |-> tp_id, session_id |-> session_id,
                  customer_id |-> customer_id, channel |-> channel,
                  page |-> page, event_type |-> event_type, timestamp |-> now,
                  duration_ms |-> duration_ms, metadata |-> "{}"]
       IN /\ touchpoints' = insert_touchpoint(tp)
          /\ LET rows == stages_for_event(event_type)
                 stage_info ==
                     IF Len(rows) > 0
                     THEN [stage_entered |-> rows[1].name,
                           position |-> rows[1].position,
                           stage_id |-> rows[1].id]
                     ELSE <<>>
               IN ret' = [op |-> "record_touchpoint",
                          in |-> [session_id |-> session_id,
                                  customer_id |-> customer_id,
                                  channel |-> channel, page |-> page,
                                  event_type |-> event_type,
                                  duration_ms |-> duration_ms],
                          out |-> [touchpoint_id |-> tp_id] @@ stage_info]
    /\ UNCHANGED <<funnel_stages, sessions, conversion_paths, dropoff_events,
                   stage_ids_issued, clock, journal, calls>>

\* ---- end_session --------------------------------------------------------
\* UPDATE sessions SET end_time=?, converted=?, conversion_value=? WHERE id=?
update_session(session_id, now, converted, conversion_value) ==
    { IF s.id = session_id
      THEN [s EXCEPT !.end_time = now, !.converted = int(converted),
                     !.conversion_value = conversion_value]
      ELSE s : s \in sessions }

RECURSIVE join_stages(_)
\* FROM touchpoints tp JOIN funnel_stages fs ON tp.event_type = fs.entry_event
\* for the touchpoint rows tps, projected on fs.id, fs.name, fs.position
join_stages(tps) ==
    IF Len(tps) = 0 THEN <<>>
    ELSE LET Matches(fs) == Head(tps).event_type = fs.entry_event
             matched == SelectSeq(scan(funnel_stages), Matches)
         IN [i \in 1..Len(matched) |->
               [id |-> matched[i].id, name |-> matched[i].name,
                position |-> matched[i].position]]
            \o join_stages(Tail(tps))

\* SELECT DISTINCT fs.id, fs.name, fs.position FROM ... ORDER BY fs.position
stages_joined(tps) == order_by_position(distinct(join_stages(tps)))

\* ... WHERE tp.session_id = ?
touchpoints_of(session_id) ==
    scan({tp \in touchpoints : tp.session_id = session_id})

\* the loop without its break: a dropoff for every missed stage
all_missed(all_stages, visited_names) ==
    {all_stages[i] : i \in {j \in 1..Len(all_stages) :
                              all_stages[j].name \notin visited_names}}

RECURSIVE first_missed(_, _)
\* the for loop over all_stages with its break: the stages it inserts a
\* dropoff event for
first_missed(all_stages, visited_names) ==
    IF Len(all_stages) = 0 THEN {}
    ELSE IF Head(all_stages).name \notin visited_names
         THEN {Head(all_stages)}
         ELSE first_missed(Tail(all_stages), visited_names)

end_session(session_id, converted, conversion_value) ==
    /\ LET now == clock
           path_id == uuid4_row(conversion_paths, session_id)
       IN   LET stages == stages_joined(touchpoints_of(session_id))
                all_stages == order_by_position(scan(funnel_stages))
                stages_visited == [i \in 1..Len(stages) |-> stages[i].name]
                path_signature == path_signature_of(stages_visited)
                visited_names == {stages_visited[i] : i \in 1..Len(stages_visited)}
                missed == IF ~converted
                          THEN first_missed(all_stages, visited_names)
                          ELSE {}
            IN /\ sessions' = update_session(session_id, now, converted,
                                             conversion_value)
               /\ conversion_paths' = conversion_paths \cup
                    {[id |-> path_id, session_id |-> session_id,
                      stages_visited |-> json_dumps(stages_visited),
                      path_signature |-> path_signature,
                      converted |-> int(converted), created_at |-> now]}
               /\ dropoff_events' = dropoff_events \cup
                    { [id |-> uuid4_row(dropoff_events, session_id),
                       session_id |-> session_id, stage_id |-> st.id,
                       stage_name |-> st.name, timestamp |-> now,
                       reason |-> "stage_not_reached"] : st \in missed }
               /\ ret' = [op |-> "end_session",
                          out |-> [id |-> path_id, session_id |-> session_id,
                                   stages_visited |-> stages_visited,
                                   path_signature |-> path_signature,
                                   converted |-> converted,
                                   created_at |-> now]]
    /\ UNCHANGED <<funnel_stages, touchpoints, stage_ids_issued, clock, journal, calls>>

\* ---- the clock ----------------------------------------------------------
\* time passes between two calls
Tick ==
    /\ clock' = clock + 1
    /\ UNCHANGED <<funnel_stages, sessions, touchpoints, conversion_paths,
                   dropoff_events, stage_ids_issued, ret, journal, calls>>

\* ---- analyze_funnel -----------------------------------------------------
\* the count without DISTINCT: one per matching touchpoint
count_touchpoints_reaching(event_type, cutoff) ==
    Cardinality({ j \in touchpoints \X sessions :
                    /\ j[1].session_id = j[2].id
                    /\ j[1].event_type = event_type
                    /\ j[2].start_time >= cutoff })

\* SELECT COUNT(DISTINCT tp.session_id) FROM touchpoints tp
\* JOIN sessions s ON tp.session_id = s.id
\* WHERE tp.event_type = ? AND s.start_time >= ?
count_sessions_reaching(event_type, cutoff) ==
    Cardinality({ r[1].session_id :
        r \in { j \in touchpoints \X sessions :
                  /\ j[1].session_id = j[2].id
                  /\ j[1].event_type = event_type
                  /\ j[2].start_time >= cutoff } })

\* SELECT COUNT(DISTINCT s.id) FROM sessions s
\* JOIN touchpoints tp ON s.id = tp.session_id
\* WHERE s.converted = 1 AND tp.event_type = ? AND s.start_time >= ?
count_conversions_reaching(event_type, cutoff) ==
    Cardinality({ r[1].id :
        r \in { j \in sessions \X touchpoints :
                  /\ j[1].id = j[2].session_id
                  /\ j[1].converted = 1
                  /\ j[2].event_type = event_type
                  /\ j[1].start_time >= cutoff } })

\* round(num / den * 100, 2), in hundredths of a percent (den > 0); with fewer
\* than 8 sessions no quotient lies half way between two hundredths
round2_percent(num, den) == (2 * num * 10000 + den) \div (2 * den)

\* the loop body of analyze_funnel for stages[i]
funnel_row(stages, i, cutoff) ==
    LET stage == stages[i]
        entry_count == count_sessions_reaching(stage.entry_event, cutoff)
        exit_count ==
            IF i + 1 <= Len(stages)
            THEN count_sessions_reaching(stages[i + 1].entry_event, cutoff)
            ELSE count_conversions_reaching(stage.entry_event, cutoff)
    IN [stage_id |-> stage.id, stage_name |-> stage.name,
        position |-> stage.position,
        entry_count |-> entry_count, exit_count |-> exit_count,
        conversion_rate |-> IF entry_count # 0
                            THEN round2_percent(exit_count, entry_count)
                            ELSE 0,
        drop_off_rate |-> IF entry_count # 0
                          THEN round2_percent(entry_count - exit_count, entry_count)
                          ELSE 10000]

analyze_funnel(days) ==
    /\ LET cutoff == clock - days
           stages == order_by_position(scan(funnel_stages))
       IN   ret' = [op |-> "analyze_funnel", days |-> days, cutoff |-> cutoff,
                    out |-> [i \in 1..Len(stages) |-> funnel_row(stages, i, cutoff)]]
    /\ UNCHANGED <<funnel_stages, sessions, touchpoints, conversion_paths,
                   dropoff_events, stage_ids_issued, clock, journal, calls>>

\* ---- binary64 arithmetic ------------------------------------------------
\* conversion_value is a REAL column and the bucket bounds are Python floats.
\* A float x >= 0 is held exactly as <<whole, f1, f2>>, standing for
\* whole + f1 / Limb + f2 / Limb^2: every binary64 value between 1/4 and
\* 2^26 is such a triple.  An operation computes the exact result and rounds
\* it to 53 significant bits, ties to even, as IEEE 754 does.
Limb == 2^27

\* float(n) of a non-negative integer n
float(n) == <<n, 0, 0>>

RECURSIVE bit_length(_)
bit_length(n) == IF n = 0 THEN 0 ELSE 1 + bit_length(n \div 2)

\* the number of significant bits of x, counted in units of 1 / Limb^2
bits_of(x) ==
    IF x[1] > 0 THEN 54 + bit_length(x[1])
    ELSE IF x[2] > 0 THEN 27 + bit_length(x[2])
    ELSE bit_length(x[3])

\* x + n / Limb^2, carried through the limbs
add_units(x, n) ==
    LET f2 == x[3] + n
        f1 == x[2] + f2 \div Limb
    IN <<x[1] + f1 \div Limb, f1 % Limb, f2 % Limb>>

\* x + tail / Limb^2 rounded to a float; tail is how the part of the exact
\* value below the last limb compares with half a unit: "zero", "below",
\* "half" or "above"
round_to_nearest(x, tail) ==
    LET k == IF bits_of(x) > 53 THEN bits_of(x) - 53 ELSE 0
        low == x[3] % (2^k)
        down == <<x[1], x[2], x[3] - low>>
        up == add_units(down, 2^k)
        odd == IF k < 27 THEN (x[3] \div (2^k)) % 2 = 1 ELSE x[2] % 2 = 1
        half == IF k = 0 THEN 0 ELSE 2^(k - 1)
        more_than_half ==
            IF k = 0 THEN tail = "above"
            ELSE low > half \/ (low = half /\ tail # "zero")
        exactly_half ==
            IF k = 0 THEN tail = "half" ELSE low = half /\ tail = "zero"
    IN IF more_than_half \/ (exactly_half /\ odd) THEN up ELSE down

\* n / d for integers n >= 0, d > 0 taken as floats
float_div(n, d) ==
    LET r0 == n % d
        r1 == (r0 * Limb) % d
        r2 == (r1 * Limb) % d
        tail == IF r2 = 0 THEN "zero"
                ELSE IF 2 * r2 < d THEN "below"
                ELSE IF 2 * r2 = d THEN "half" ELSE "above"
    IN round_to_nearest(<<n \div d, (r0 * Limb) \div d, (r1 * Limb) \div d>>,
                        tail)

\* i * x for an integer i >= 0 and a float x
float_mul(i, x) ==
    LET f2 == i * x[3]
        f1 == i * x[2] + f2 \div Limb
    IN round_to_nearest(<<i * x[1] + f1 \div Limb, f1 % Limb, f2 % Limb>>,
                        "zero")

\* x + y
float_add(x, y) ==
    LET f2 == x[3] + y[3]
        f1 == x[2] + y[2] + f2 \div Limb
    IN round_to_nearest(<<x[1] + y[1] + f1 \div Limb, f1 % Limb, f2 % Limb>>,
                        "zero")

\* x < y
float_lt(x, y) ==
    \/ x[1] < y[1]
    \/ x[1] = y[1] /\ x[2] < y[2]
    \/ x[1] = y[1] /\ x[2] = y[2] /\ x[3] < y[3]

\* x <= y
float_le(x, y) == x = y \/ float_lt(x, y)

\* the fraction <<f1, f2>> times ten: <<the digit carried out, the rest>>
times_ten(frac) ==
    LET f2 == 10 * frac[2]
        f1 == 10 * frac[1] + f2 \div Limb
    IN <<f1 \div Limb, <<f1 % Limb, f2 % Limb>>>>

\* round(x, 2), in hundredths: the exact value of x rounded to two decimals,
\* ties to even
round2(x) ==
    LET d1 == times_ten(<<x[2], x[3]>>)
        d2 == times_ten(d1[2])
        rest == d2[2]
        floor == 100 * x[1] + 10 * d1[1] + d2[1]
        more_than_half ==
            rest[1] > Limb \div 2 \/ (rest[1] = Limb \div 2 /\ rest[2] > 0)
        exactly_half == rest[1] = Limb \div 2 /\ rest[2] = 0
    IN IF more_than_half \/ (exactly_half /\ floor % 2 = 1)
       THEN floor + 1 ELSE floor

\* ---- compute_customer_ltv_segments --------------------------------------
RECURSIVE sum_conversion_value(_)
\* SUM(conversion_value) over the session rows S
sum_conversion_value(S) ==
    IF S = {} THEN 0
    ELSE LET s == CHOOSE s \in S : TRUE
         IN s.conversion_value + sum_conversion_value(S \ {s})

\* SELECT customer_id, SUM(conversion_value) as ltv FROM sessions
\* WHERE converted = 1 GROUP BY customer_id
ltv_rows ==
    { [customer_id |-> c,
       ltv |-> sum_conversion_value({s \in sessions :
                                       s.converted = 1 /\ s.customer_id = c})] :
      c \in {s.customer_id : s \in {t \in sessions : t.converted = 1}} }

min_ltv == CHOOSE v \in {r.ltv : r \in ltv_rows} : \A r \in ltv_rows : v <= r.ltv
max_ltv == CHOOSE v \in {r.ltv : r \in ltv_rows} : \A r \in ltv_rows : v >= r.ltv

\* width = (max_ltv - min_ltv) / buckets if max_ltv > min_ltv else 1.0
width(buckets) ==
    IF max_ltv > min_ltv THEN float_div(max_ltv - min_ltv, buckets)
    ELSE float(1)

\* lo = min_ltv + i * width, for i in range(buckets)
lo(i, buckets) == float_add(float(min_ltv), float_mul(i, width(buckets)))
\* hi = lo + width
hi(i, buckets) == float_add(lo(i, buckets), width(buckets))

\* members: lo <= ltv < hi, and lo <= ltv <= hi in the last bucket
members(i, buckets) ==
    { r.customer_id : r \in
        { q \in ltv_rows :
            /\ float_le(lo(i, buckets), float(q.ltv))
            /\ IF i = buckets - 1
               THEN float_le(float(q.ltv), hi(i, buckets))
               ELSE float_lt(float(q.ltv), hi(i, buckets)) } }

compute_customer_ltv_segments(buckets) ==
    /\ ret' = [op |-> "compute_customer_ltv_segments", buckets |-> buckets,
               out |-> IF ltv_rows = {} THEN <<>>
                       ELSE [b \in 1..buckets |->
                               [bucket |-> b,
                                ltv_min |-> round2(lo(b - 1, buckets)),
                                ltv_max |-> round2(hi(b - 1, buckets)),
                                customer_count |->
                                    Cardinality(members(b - 1, buckets)),
                                label |-> <<"Segment ", b>>]]]
    /\ UNCHANGED <<funnel_stages, sessions, touchpoints, conversion_paths,
                   dropoff_events, stage_ids_issued, clock, journal, calls>>

\* ---- analyze_dropoffs ---------------------------------------------------
\* {r[key]: r["count"] for r in rows} for SELECT key, COUNT(*) ... GROUP BY
\* key, where key_of gives the key of every row selected: the dict as a
\* function from its keys
count_by(key_of) ==
    [k \in {key_of[r] : r \in DOMAIN key_of} |->
       Cardinality({r \in DOMAIN key_of : key_of[r] = k})]

RECURSIVE sum_of(_, _)
\* the sum of f over the keys K
sum_of(f, K) ==
    IF K = {} THEN 0
    ELSE LET k == CHOOSE k \in K : TRUE
         IN f[k] + sum_of(f, K \ {k})

\* sum(d.values())
sum_values(d) == sum_of(d, DOMAIN d)

\* CAST(SUBSTR(timestamp, 12, 2) AS INTEGER): the two characters after the
\* "T" of the ISO timestamp.  The clock counts whole days from midnight, so
\* the timestamp of day t reads ...T00:00:00 and the hour is the remainder of
\* its 24 * t hours
hour_of(timestamp) == (24 * timestamp) % 24

\* FROM dropoff_events de JOIN sessions s ON de.session_id = s.id
\* WHERE de.stage_id = ?
dropoffs_joined(stage_id) ==
    { j \in dropoff_events \X sessions :
        j[1].session_id = j[2].id /\ j[1].stage_id = stage_id }

analyze_dropoffs(stage_id) ==
    /\ LET at_stage == {de \in dropoff_events : de.stage_id = stage_id}
           reasons == count_by([de \in at_stage |-> de.reason])
           time_pattern ==
               count_by([de \in at_stage |-> hour_of(de.timestamp)])
           channels ==
               count_by([j \in dropoffs_joined(stage_id) |-> j[2].channel])
       IN ret' = [op |-> "analyze_dropoffs",
                  out |-> [stage_id |-> stage_id, reasons |-> reasons,
                           time_of_day |-> time_pattern,
                           by_channel |-> channels,
                           total_dropoffs |-> sum_values(reasons)]]
    /\ UNCHANGED <<funnel_stages, sessions, touchpoints, conversion_paths,
                   dropoff_events, stage_ids_issued, clock, journal, calls>>

\* ---- get_top_conversion_paths -------------------------------------------
\* ROUND(num / den, 2) of SQLite for num >= 0 and den > 0, in hundredths: a
\* quotient half way between two hundredths is rounded away from zero
round2_ratio(num, den) == (2 * 100 * num + den) \div (2 * den)

\* SELECT path_signature, COUNT(*), SUM(converted),
\* ROUND(100.0 * SUM(converted) / COUNT(*), 2) ... GROUP BY path_signature:
\* the row of the group of signature
path_group(signature) ==
    LET rows == {p \in conversion_paths : p.path_signature = signature}
        converted == [p \in rows |-> p.converted]
    IN [path_signature |-> signature,
        occurrences |-> Cardinality(rows),
        conversions |-> sum_of(converted, rows),
        conversion_rate |->
            round2_ratio(100 * sum_of(converted, rows), Cardinality(rows))]

\* the groups in ascending order of occurrences
order_by_occurrences_asc(groups) ==
    {o \in Orderings(groups) :
       \A i, j \in 1..Len(o) : i < j => o[i].occurrences <= o[j].occurrences}

\* ORDER BY occurrences DESC: SQL leaves the order of groups with equal
\* occurrences open, so every such order is a possible result
order_by_occurrences_desc(groups) ==
    {o \in Orderings(groups) :
       \A i, j \in 1..Len(o) : i < j => o[i].occurrences >= o[j].occurrences}

\* LIMIT ?: the first limit rows; a negative limit is no limit
limit_rows(rows, limit) ==
    IF limit < 0 \/ limit > Len(rows) THEN rows ELSE SubSeq(rows, 1, limit)

get_top_conversion_paths(limit) ==
    /\ \E rows \in order_by_occurrences_desc(
                     {path_group(p.path_signature) : p \in conversion_paths}) :
         ret' = [op |-> "get_top_conversion_paths", limit |-> limit,
                 out |-> limit_rows(rows, limit)]
    /\ UNCHANGED <<funnel_stages, sessions, touchpoints, conversion_paths,
                   dropoff_events, stage_ids_issued, clock, journal, calls>>

\* ---- get_channel_attribution --------------------------------------------
\* the query without its WHERE clause
sessions_since_ever(cutoff) == sessions

\* FROM sessions WHERE start_time >= ?
sessions_since(cutoff) == {s \in sessions : s.start_time >= cutoff}

\* SELECT channel, COUNT(*), SUM(converted), ROUND(100.0 * SUM(converted) /
\* COUNT(*), 2), ROUND(AVG(CASE WHEN converted=1 THEN conversion_value ELSE
\* NULL END), 2) ... GROUP BY channel: the row of the group of channel.  AVG
\* skips the NULLs and is NULL when nothing is left
channel_group(channel, cutoff) ==
    LET rows == {s \in sessions_since(cutoff) : s.channel = channel}
        converted == [s \in rows |-> s.converted]
        valued == {s \in rows : s.converted = 1}
    IN [channel |-> channel,
        sessions |-> Cardinality(rows),
        conversions |-> sum_of(converted, rows),
        conversion_rate |->
            round2_ratio(100 * sum_of(converted, rows), Cardinality(rows)),
        avg_value |-> IF valued = {} THEN NULL
                      ELSE round2_ratio(sum_conversion_value(valued),
                                        Cardinality(valued))]

\* ORDER BY conversions DESC: every order of the groups of equal conversions
\* is a possible result
order_by_conversions_desc(groups) ==
    {o \in Orderings(groups) :
       \A i, j \in 1..Len(o) : i < j => o[i].conversions >= o[j].conversions}

get_channel_attribution(days) ==
    /\ LET cutoff == clock - days
       IN \E rows \in order_by_conversions_desc(
                        {channel_group(s.channel, cutoff) :
                           s \in sessions_since(cutoff)}) :
            ret' = [op |-> "get_channel_attribution", days |-> days,
                    cutoff |-> cutoff, out |-> rows]
    /\ UNCHANGED <<funnel_stages, sessions, touchpoints, conversion_paths,
                   dropoff_events, stage_ids_issued, clock, journal, calls>>

\* ---- callers on one database file ---------------------------------------
\* A connection belongs to the thread that opened it, so concurrent callers
\* are processes with a CustomerJourneyMapper each on the same db_path.  The
\* first INSERT or UPDATE of a call opens a transaction and takes the write
\* lock of the database file; commit() releases it.  While a transaction is
\* open the table variables hold what its owner sees, and journal holds the
\* content before the transaction (the rollback journal), which is what
\* every other connection reads and what a rollback restores.

\* every statement committed at once: no transaction is kept open
begin_autocommit(c) == NoJournal

\* the implicit BEGIN of the connection of c before its first write
begin(c) ==
    [owner |-> c, funnel_stages |-> funnel_stages, sessions |-> sessions,
     touchpoints |-> touchpoints, conversion_paths |-> conversion_paths,
     dropoff_events |-> dropoff_events]

\* self.conn.commit()
commit == NoJournal

\* the caller c enters end_session(session_id, converted, conversion_value)
\* and reads the time.
\* rivals and seen are history: the callers inside an end_session call for
\* this session at that moment, and the committed paths of the session
call_end_session(c, session_id, converted, conversion_value) ==
    /\ calls[c] = Idle
    /\ calls' = [calls EXCEPT ![c] =
         [pc |-> "update", op |-> "end_session", session_id |-> session_id,
          converted |-> converted, conversion_value |-> conversion_value,
          now |-> clock,
          rivals |-> {d \in Callers \ {c} :
                        /\ calls[d].pc # "idle"
                        /\ calls[d].op = "end_session"
                        /\ calls[d].session_id = session_id},
          seen |-> {p \in committed.conversion_paths :
                      p.session_id = session_id}]]
    /\ UNCHANGED <<funnel_stages, sessions, touchpoints, conversion_paths,
                   dropoff_events, stage_ids_issued, clock, ret, journal>>

\* UPDATE sessions ...: the first write, it waits for the write lock
end_session_update(c) ==
    /\ calls[c].pc = "update"
    /\ journal = NoJournal
    /\ journal' = begin(c)
    /\ sessions' = update_session(calls[c].session_id, calls[c].now,
                                  calls[c].converted, calls[c].conversion_value)
    /\ calls' = [calls EXCEPT ![c] = [pc |-> "path"] @@ calls[c]]
    /\ UNCHANGED <<funnel_stages, touchpoints, conversion_paths,
                   dropoff_events, stage_ids_issued, clock, ret>>

\* SELECT DISTINCT fs.id, fs.name, fs.position ...; INSERT INTO
\* conversion_paths
end_session_path(c) ==
    /\ calls[c].pc = "path"
    /\ LET session_id == calls[c].session_id
           path_id == uuid4_row(conversion_paths, session_id)
           stages == stages_joined(touchpoints_of(session_id))
           stages_visited == [i \in 1..Len(stages) |-> stages[i].name]
       IN /\ conversion_paths' = conversion_paths \cup
               {[id |-> path_id, session_id |-> session_id,
                 stages_visited |-> json_dumps(stages_visited),
                 path_signature |-> path_signature_of(stages_visited),
                 converted |-> int(calls[c].converted),
                 created_at |-> calls[c].now]}
          /\ calls' = [calls EXCEPT ![c] =
               [pc |-> "dropoff", path_id |-> path_id,
                stages_visited |-> stages_visited] @@ calls[c]]
    /\ UNCHANGED <<funnel_stages, sessions, touchpoints, dropoff_events,
                   stage_ids_issued, clock, ret, journal>>

\* if not converted: SELECT * FROM funnel_stages ORDER BY position and the
\* loop that inserts the dropoff event
end_session_dropoff(c) ==
    /\ calls[c].pc = "dropoff"
    /\ LET session_id == calls[c].session_id
           all_stages == order_by_position(scan(funnel_stages))
           missed == IF ~calls[c].converted
                     THEN first_missed(all_stages,
                                       Range(calls[c].stages_visited))
                     ELSE {}
       IN dropoff_events' = dropoff_events \cup
            { [id |-> uuid4_row(dropoff_events, session_id),
               session_id |-> session_id, stage_id |-> st.id,
               stage_name |-> st.name, timestamp |-> calls[c].now,
               reason |-> "stage_not_reached"] : st \in missed }
    /\ calls' = [calls EXCEPT ![c] = [pc |-> "commit"] @@ calls[c]]
    /\ UNCHANGED <<funnel_stages, sessions, touchpoints, conversion_paths,
                   stage_ids_issued, clock, ret, journal>>

\* self.conn.commit(); return ConversionPath(...)
end_session_commit(c) ==
    /\ calls[c].pc = "commit"
    /\ calls[c].op = "end_session"
    /\ journal' = commit
    /\ ret' = [op |-> "end_session",
               out |-> [id |-> calls[c].path_id,
                        session_id |-> calls[c].session_id,
                        stages_visited |-> calls[c].stages_visited,
                        path_signature |->
                            path_signature_of(calls[c].stages_visited),
                        converted |-> calls[c].converted,
                        created_at |-> calls[c].now]]
    /\ calls' = [calls EXCEPT ![c] = Idle]
    /\ UNCHANGED <<funnel_stages, sessions, touchpoints, conversion_paths,
                   dropoff_events, stage_ids_issued, clock>>

\* the caller c enters record_touchpoint and reads the time
call_record_touchpoint(c, session_id, customer_id, channel, page, event_type, duration_ms) ==
    /\ calls[c] = Idle
    /\ calls' = [calls EXCEPT ![c] =
         [pc |-> "insert", op |-> "record_touchpoint", now |-> clock,
          in |-> [session_id |-> session_id, customer_id |-> customer_id,
                  channel |-> channel, page |-> page,
                  event_type |-> event_type, duration_ms |-> duration_ms]]]
    /\ UNCHANGED <<funnel_stages, sessions, touchpoints, conversion_paths,
                   dropoff_events, stage_ids_issued, clock, ret, journal>>

\* INSERT INTO touchpoints: the first write, it waits for the write lock
record_touchpoint_insert(c) ==
    /\ calls[c].pc = "insert"
    /\ journal = NoJournal
    /\ journal' = begin(c)
    /\ LET tp_id == Cardinality(touchpoints) + 1
       IN /\ touchpoints' = insert_touchpoint(
               [id |-> tp_id, timestamp |-> calls[c].now, metadata |-> "{}"]
               @@ calls[c].in)
          /\ calls' = [calls EXCEPT ![c] =
               [pc |-> "commit", touchpoint_id |-> tp_id] @@ calls[c]]
    /\ UNCHANGED <<funnel_stages, sessions, conversion_paths, dropoff_events,
                   stage_ids_issued, clock, ret>>

\* self.conn.commit()
record_touchpoint_commit(c) ==
    /\ calls[c].pc = "commit"
    /\ calls[c].op = "record_touchpoint"
    /\ journal' = commit
    /\ calls' = [calls EXCEPT ![c] = [pc |-> "lookup"] @@ calls[c]]
    /\ UNCHANGED <<funnel_stages, sessions, touchpoints, conversion_paths,
                   dropoff_events, stage_ids_issued, clock, ret>>

\* SELECT * FROM funnel_stages WHERE entry_event = ? ...; return result
record_touchpoint_lookup(c) ==
    /\ calls[c].pc = "lookup"
    /\ LET rows == LET Matches(st) == st.entry_event = calls[c].in.event_type
                   IN order_by_position(
                        SelectSeq(scan(committed.funnel_stages), Matches))
           stage_info ==
               IF Len(rows) > 0
               THEN [stage_entered |-> rows[1].name,
                     position |-> rows[1].position, stage_id |-> rows[1].id]
               ELSE <<>>
       IN ret' = [op |-> "record_touchpoint", in |-> calls[c].in,
                  out |-> [touchpoint_id |-> calls[c].touchpoint_id]
                          @@ stage_info]
    /\ calls' = [calls EXCEPT ![c] = Idle]
    /\ UNCHANGED <<funnel_stages, sessions, touchpoints, conversion_paths,
                   dropoff_events, stage_ids_issued, clock, journal>>

\* the write lock is held by another connection for longer than the busy
\* timeout: the first write of c raises sqlite3.OperationalError (database is
\* locked) and the call ends without a write
database_is_locked(c) ==
    /\ calls[c].pc \in {"update", "insert"}
    /\ journal # NoJournal
    /\ journal.owner # c
    /\ ret' = [op |-> "OperationalError", in |-> calls[c].op]
    /\ calls' = [calls EXCEPT ![c] = Idle]
    /\ UNCHANGED <<funnel_stages, sessions, touchpoints, conversion_paths,
                   dropoff_events, stage_ids_issued, clock, journal>>

\* the process of c dies inside a call: SQLite rolls its open transaction
\* back from the journal; the process starts again with a new mapper
crash(c) ==
    /\ calls[c].pc # "idle"
    /\ calls' = [calls EXCEPT ![c] = Idle]
    /\ IF journal # NoJournal /\ journal.owner = c
       THEN /\ journal' = NoJournal
            /\ funnel_stages' = journal.funnel_stages
            /\ sessions' = journal.sessions
            /\ touchpoints' = journal.touchpoints
            /\ conversion_paths' = journal.conversion_paths
            /\ dropoff_events' = journal.dropoff_events
       ELSE UNCHANGED <<funnel_stages, sessions, touchpoints,
                        conversion_paths, dropoff_events, journal>>
    /\ UNCHANGED <<stage_ids_issued, clock, ret>>

\* ---- specifications -----------------------------------------------------
SessionArgs == {s.id : s \in sessions} \cup {NoSuchSession}

\* (converted, conversion_value) pairs callers pass to end_session
EndArgs == {<<FALSE, 0>>, <<TRUE, 50>>}

DefineStage ==
    /\ stage_ids_issued < MaxDefines
    /\ \E name \in Names, position \in Positions, entry_event \in Events :
         define_funnel_stage(name, position, "", entry_event, "")

StartSession ==
    /\ Cardinality(sessions) < MaxSessions
    /\ \E customer_id \in Customers, channel \in Channels, device \in Devices :
         start_session(customer_id, channel, device)

RecordTouchpoint ==
    /\ Cardinality(touchpoints) < MaxTouchpoints
    /\ \E session_id \in SessionArgs, customer_id \in Customers,
          channel \in Channels, page \in Pages, event_type \in Events,
          duration_ms \in Durations :
         record_touchpoint(session_id, customer_id, channel, page, event_type,
                           duration_ms)

EndSession ==
    /\ Cardinality(conversion_paths) < MaxEnds
    /\ \E session_id \in SessionArgs, a \in EndArgs :
         end_session(session_id, a[1], a[2])

\* The session lifecycle: every mutating operation, in any order, on started
\* and on never started session ids.  The calls follow each other within one
\* tick of the clock; SpecFunnel lets time pass.
Next == DefineStage \/ StartSession \/ RecordTouchpoint \/ EndSession

Spec == Init /\ [][Next]_vars

\* The stage registry alone, with every field of a stage varying.
DefineAnyStage ==
    /\ stage_ids_issued < MaxDefines + 1
    /\ \E name \in Names, position \in Positions, description \in Descriptions,
          entry_event \in Events, exit_event \in Events :
         define_funnel_stage(name, position, description, entry_event, exit_event)

NextRegistry == DefineAnyStage

SpecRegistry == Init /\ [][NextRegistry]_vars

\* Funnel analysis over a window, with time passing between the calls: each
\* stage has its own entry event, at any position; sessions convert or stay
\* open.
EntryEventOf == [Awareness |-> "page_view", Interest |-> "search"]

DefineFunnel ==
    /\ stage_ids_issued < MaxDefines
    /\ \E name \in Names, position \in Positions :
         define_funnel_stage(name, position, "", EntryEventOf[name], "")

RecordFunnelTouchpoint ==
    /\ Cardinality(touchpoints) < MaxTouchpoints + 1
    /\ \E s \in sessions, customer_id \in Customers,
          channel \in Channels, page \in Pages, event_type \in Events,
          duration_ms \in Durations :
         record_touchpoint(s.id, customer_id, channel, page, event_type,
                           duration_ms)

EndSessionConverted ==
    /\ Cardinality(conversion_paths) < MaxEnds - 1
    /\ \E s \in sessions : end_session(s.id, TRUE, 50)

TickClock == clock < MaxClock /\ Tick

AnalyzeFunnel == \E days \in Days : analyze_funnel(days)

NextFunnel ==
    \/ DefineFunnel
    \/ StartSession
    \/ RecordFunnelTouchpoint
    \/ EndSessionConverted
    \/ TickClock
    \/ AnalyzeFunnel

SpecFunnel == Init /\ [][NextFunnel]_vars

\* Customer value segmentation: several customers convert with several
\* values, and the segments are computed for every number of buckets.
LtvCustomers == {"cust-001", "cust-002"}
LtvValues == {1, 2}
Buckets == 1..MaxBuckets

StartLtvSession ==
    /\ Cardinality(sessions) < MaxSessions + 1
    /\ \E customer_id \in LtvCustomers, channel \in Channels, device \in Devices :
         start_session(customer_id, channel, device)

EndLtvSession ==
    /\ Cardinality(conversion_paths) < MaxEnds + 1
    /\ \E s \in sessions, value \in LtvValues :
         s.end_time = NULL /\ end_session(s.id, TRUE, value)

ComputeLtvSegments ==
    \E buckets \in Buckets : compute_customer_ltv_segments(buckets)

NextLtv == StartLtvSession \/ EndLtvSession \/ ComputeLtvSegments

SpecLtv == Init /\ [][NextLtv]_vars

\* Dropoff analysis: sessions of two channels, started or not, are closed
\* without a conversion while stages are defined and redefined, and the
\* dropoffs are analysed for issued stage ids and for the id 0 that was
\* never issued.
DropoffChannels == {"email", "organic"}

StartChannelSession ==
    /\ Cardinality(sessions) < MaxSessions
    /\ \E customer_id \in Customers, channel \in DropoffChannels,
          device \in Devices :
         start_session(customer_id, channel, device)

EndSessionUnconverted ==
    /\ Cardinality(conversion_paths) < MaxEnds
    /\ \E session_id \in SessionArgs : end_session(session_id, FALSE, 0)

AnalyzeDropoffs ==
    \E stage_id \in 0..stage_ids_issued : analyze_dropoffs(stage_id)

NextDropoffs ==
    \/ DefineFunnel
    \/ StartChannelSession
    \/ EndSessionUnconverted
    \/ TickClock
    \/ AnalyzeDropoffs

SpecDropoffs == Init /\ [][NextDropoffs]_vars

\* Conversion paths: sessions reach the stages of a funnel, are closed with
\* and without a conversion, and the top paths are listed.
Limits == 0..MaxLimit

RecordPathTouchpoint ==
    /\ Cardinality(touchpoints) < MaxTouchpoints - 1
    /\ \E s \in sessions, customer_id \in Customers,
          channel \in Channels, page \in Pages, event_type \in Events,
          duration_ms \in Durations :
         record_touchpoint(s.id, customer_id, channel, page, event_type,
                           duration_ms)

EndStartedSession ==
    /\ Cardinality(conversion_paths) < MaxEnds + 1
    /\ \E s \in sessions, a \in EndArgs : end_session(s.id, a[1], a[2])

GetTopConversionPaths ==
    \E limit \in Limits : get_top_conversion_paths(limit)

NextPaths ==
    \/ DefineFunnel
    \/ StartSession
    \/ RecordPathTouchpoint
    \/ EndStartedSession
    \/ GetTopConversionPaths

SpecPaths == Init /\ [][NextPaths]_vars

\* Channel attribution: sessions of two channels start at different times,
\* stay open or are closed with or without a conversion of some value, and
\* the channels are compared over a window.
AttributedEndArgs == {<<FALSE, 0>>} \cup {<<TRUE, value>> : value \in LtvValues}

StartAttributedSession ==
    /\ Cardinality(sessions) < MaxSessions + 1
    /\ \E customer_id \in Customers, channel \in DropoffChannels,
          device \in Devices :
         start_session(customer_id, channel, device)

EndAttributedSession ==
    /\ Cardinality(conversion_paths) < MaxEnds
    /\ \E s \in sessions, a \in AttributedEndArgs :
         end_session(s.id, a[1], a[2])

GetChannelAttribution == \E days \in Days : get_channel_attribution(days)

NextChannels ==
    \/ StartAttributedSession
    \/ EndAttributedSession
    \/ TickClock
    \/ GetChannelAttribution

SpecChannels == Init /\ [][NextChannels]_vars

\* Two processes on one database file.  Stages are defined and sessions are
\* started by calls that find the write lock free; record_touchpoint and
\* end_session run statement by statement, interleaved, and a process can
\* die at any statement.
DefineUnlocked ==
    /\ journal = NoJournal
    /\ stage_ids_issued < MaxDefines - 1
    /\ \E name \in Names, position \in Positions :
         define_funnel_stage(name, position, "", EntryEventOf[name], "")

StartUnlocked ==
    /\ journal = NoJournal
    /\ Cardinality(sessions) < MaxSessions - 1
    /\ \E customer_id \in Customers, channel \in Channels, device \in Devices :
         start_session(customer_id, channel, device)

CallRecordTouchpoint ==
    /\ Cardinality(touchpoints) < MaxTouchpoints - 1
    /\ \A d \in Callers : calls[d].pc # "idle" => calls[d].op = "end_session"
    /\ \E c \in Callers, s \in sessions, customer_id \in Customers,
          channel \in Channels, page \in Pages, event_type \in Events,
          duration_ms \in Durations :
         call_record_touchpoint(c, s.id, customer_id, channel, page,
                                event_type, duration_ms)

CallEndSession ==
    /\ Cardinality(committed.conversion_paths)
         + Cardinality({d \in Callers : /\ calls[d].pc # "idle"
                                        /\ calls[d].op = "end_session"})
         < MaxEnds
    /\ \E c \in Callers, s \in sessions, a \in EndArgs :
         call_end_session(c, s.id, a[1], a[2])

EndSessionStep ==
    \E c \in Callers :
       \/ end_session_update(c)
       \/ end_session_path(c)
       \/ end_session_dropoff(c)
       \/ end_session_commit(c)

RecordTouchpointStep ==
    \E c \in Callers :
       \/ record_touchpoint_insert(c)
       \/ record_touchpoint_commit(c)
       \/ record_touchpoint_lookup(c)

DatabaseIsLocked == \E c \in Callers : database_is_locked(c)

Crash == \E c \in Callers : crash(c)

NextConcurrent ==
    \/ DefineUnlocked
    \/ StartUnlocked
    \/ CallRecordTouchpoint
    \/ CallEndSession
    \/ EndSessionStep
    \/ RecordTouchpointStep
    \/ DatabaseIsLocked
    \/ Crash

SpecConcurrent == Init /\ [][NextConcurrent]_vars

\* ---- properties ---------------------------------------------------------
PathsOf(session_id) == {p \in conversion_paths : p.session_id = session_id}
DropoffsOf(session_id) == {d \in dropoff_events : d.session_id = session_id}
\* the step is a call of the operation op: every mutating call returns a
\* fresh identifier, so ret changes
Called(op) == ret' # ret /\ ret'.op = op

\* C1: every session has at most one ConversionPath, and exactly one once
\* end_session has been called for it (its end_time is set), however often
\* end_session is called.
C1_OnePathPerSession ==
    \A s \in sessions :
        /\ Cardinality(PathsOf(s.id)) <= 1
        /\ s.end_time # NULL => Cardinality(PathsOf(s.id)) = 1

\* C2: every session has at most one DropoffEvent, and a session stored as
\* converted has none.
C2_AtMostOneDropoff ==
    \A s \in sessions :
        /\ Cardinality(DropoffsOf(s.id)) <= 1
        /\ s.converted = 1 => DropoffsOf(s.id) = {}

\* C3: once a session is closed, no step changes its end_time, converted or
\* conversion_value.
C3_ClosedIsTerminal ==
    [][\A s \in sessions :
         s.end_time # NULL =>
           \E t \in sessions' : /\ t.id = s.id
                                /\ t.end_time = s.end_time
                                /\ t.converted = s.converted
                                /\ t.conversion_value = s.conversion_value]_vars

\* the registered stages a touchpoint of the session triggers
TriggeredStages(session_id) ==
    {st \in funnel_stages :
       \E tp \in touchpoints : /\ tp.session_id = session_id
                               /\ tp.event_type = st.entry_event}
PositionOf(name) == (CHOOSE st \in funnel_stages : st.name = name).position

\* C4: end_session returns and stores as stages_visited exactly the names of
\* the registered stages triggered by a touchpoint of the session, without
\* duplicates, in ascending position order, with the signature "direct" or the
\* names joined; and the call delivers the same result for every order in
\* which these touchpoints can have been recorded.
C4_StagesVisited ==
    (ret.op = "end_session" /\ \E s \in sessions : s.id = ret.out.session_id) =>
      LET visited == ret.out.stages_visited
          expected == {st.name : st \in TriggeredStages(ret.out.session_id)}
      IN /\ Range(visited) = expected
         /\ Len(visited) = Cardinality(expected)
         /\ \A i, j \in 1..Len(visited) :
              i < j => PositionOf(visited[i]) <= PositionOf(visited[j])
         /\ ret.out.path_signature =
              IF visited = <<>> THEN <<"direct">> ELSE join(" -> ", visited)
         /\ \E p \in conversion_paths :
              /\ p.id = ret.out.id
              /\ p.session_id = ret.out.session_id
              /\ p.stages_visited = json_dumps(visited)
              /\ p.path_signature = ret.out.path_signature
         /\ \A tps \in Orderings(Range(touchpoints_of(ret.out.session_id))) :
              LET o == stages_joined(tps)
              IN [i \in 1..Len(o) |-> o[i].name] = visited

\* C5: a call end_session(s, converted) adds one DropoffEvent, with reason
\* "stage_not_reached", for a lowest-position registered stage missing from
\* stages_visited when converted is false and such a stage exists, and adds
\* none otherwise; so the DropoffEvents count the non-converting closes that
\* missed a stage.
C5_DropoffAtClose ==
    [][Called("end_session") =>
         LET visited == Range(ret'.out.stages_visited)
             missing == {st \in funnel_stages : st.name \notin visited}
         IN IF ret'.out.converted \/ missing = {}
            THEN dropoff_events' = dropoff_events
            ELSE /\ Cardinality(dropoff_events') = Cardinality(dropoff_events) + 1
                 /\ \E d \in dropoff_events' \ dropoff_events :
                      /\ dropoff_events' = dropoff_events \cup {d}
                      /\ d.session_id = ret'.out.session_id
                      /\ d.reason = "stage_not_reached"
                      /\ \E st \in missing :
                           /\ d.stage_id = st.id
                           /\ d.stage_name = st.name
                           /\ \A m \in missing : st.position <= m.position]_vars

\* a non-converting close of a started session that visited the first stage
\* and dropped off at the second one
C5_Witness ==
    /\ ret.op = "end_session"
    /\ ~ret.out.converted
    /\ \E s \in sessions : s.id = ret.out.session_id /\ s.end_time # NULL
    /\ Len(ret.out.stages_visited) = 1
    /\ Cardinality(funnel_stages) = 2
    /\ \E d \in DropoffsOf(ret.out.session_id) :
         /\ d.stage_name \notin Range(ret.out.stages_visited)
         /\ PositionOf(d.stage_name) > PositionOf(ret.out.stages_visited[1])

\* the touchpoint row the last record_touchpoint call inserted
LastTouchpoint == CHOOSE tp \in touchpoints : tp.id = ret.out.touchpoint_id

\* C8: record_touchpoint returns stage_entered, position and stage_id of a
\* registered stage whose entry_event is the event_type and whose position is
\* the lowest among those; with no such stage it returns touchpoint_id alone.
C8_StageTransition ==
    ret.op = "record_touchpoint" =>
      LET matching == {st \in funnel_stages :
                         st.entry_event = ret.in.event_type}
      IN IF matching = {}
         THEN DOMAIN ret.out = {"touchpoint_id"}
         ELSE /\ DOMAIN ret.out =
                   {"touchpoint_id", "stage_entered", "position", "stage_id"}
              /\ \E st \in matching :
                   /\ \A m \in matching : st.position <= m.position
                   /\ ret.out.stage_entered = st.name
                   /\ ret.out.position = st.position
                   /\ ret.out.stage_id = st.id

\* two stages share the entry event, the one registered later has the lower
\* position and is the one returned
C8_Witness ==
    /\ ret.op = "record_touchpoint"
    /\ "stage_id" \in DOMAIN ret.out
    /\ \E st \in funnel_stages :
         /\ st.entry_event = ret.in.event_type
         /\ st.position > ret.out.position
         /\ st.id < ret.out.stage_id

\* C10: every record_touchpoint call adds exactly one touchpoint, carrying the
\* given fields and the returned touchpoint_id, whether its session is open,
\* closed or was never started; no step changes or removes a touchpoint.
C10_TouchpointsAppendOnly ==
    [][/\ touchpoints \subseteq touchpoints'
       /\ IF Called("record_touchpoint")
          THEN \E tp \in touchpoints' \ touchpoints :
                 /\ touchpoints' = touchpoints \cup {tp}
                 /\ tp.id = ret'.out.touchpoint_id
                 /\ tp.session_id = ret'.in.session_id
                 /\ tp.customer_id = ret'.in.customer_id
                 /\ tp.channel = ret'.in.channel
                 /\ tp.page = ret'.in.page
                 /\ tp.event_type = ret'.in.event_type
                 /\ tp.duration_ms = ret'.in.duration_ms
          ELSE touchpoints' = touchpoints]_vars

\* touchpoints were recorded for a session that was never started and, last,
\* for a session that is closed
C10_Witness ==
    /\ ret.op = "record_touchpoint"
    /\ \E s \in sessions : s.id = LastTouchpoint.session_id /\ s.end_time # NULL
    /\ \E tp \in touchpoints : tp.session_id = NoSuchSession

\* C9: no two registered stages share a name; a define_funnel_stage call for
\* a registered name keeps the number of stages, leaves the other stages as
\* they are, and the stage of that name then carries the position,
\* description, entry_event and exit_event of this call and an id that was
\* never issued before.
C9_UpsertByName ==
    [][Called("define_funnel_stage") =>
         LET args == ret'.out
             named == {st \in funnel_stages' : st.name = args.name}
         IN /\ \A a, b \in funnel_stages' : a.name = b.name => a = b
            /\ \A st \in funnel_stages : st.name # args.name => st \in funnel_stages'
            /\ (\E st \in funnel_stages : st.name = args.name) =>
                 Cardinality(funnel_stages') = Cardinality(funnel_stages)
            /\ \E st \in named :
                 /\ named = {st}
                 /\ st.position = args.position
                 /\ st.description = args.description
                 /\ st.entry_event = args.entry_event
                 /\ st.exit_event = args.exit_event
                 /\ st.id \notin 1..stage_ids_issued]_vars

\* a stage was redefined with other fields while another stage is registered
C9_Witness ==
    /\ ret.op = "define_funnel_stage"
    /\ stage_ids_issued = 3
    /\ Cardinality(funnel_stages) = 2
    /\ \E st \in funnel_stages :
         /\ st.id = 3
         /\ st.description # ""
         /\ st.exit_event = "search"
         /\ st.position = 2

\* C6: in every result of analyze_funnel the conversion_rate and the
\* drop_off_rate of every stage lie in [0, 100] (rates in hundredths).
C6_RatesInRange ==
    ret.op = "analyze_funnel" =>
      \A i \in 1..Len(ret.out) :
        /\ 0 <= ret.out[i].conversion_rate /\ ret.out[i].conversion_rate <= 10000
        /\ 0 <= ret.out[i].drop_off_rate /\ ret.out[i].drop_off_rate <= 10000

\* the sessions inside the window of the last analysis with a touchpoint of
\* the event type
InWindowReaching(event_type) ==
    {s \in sessions :
       /\ s.start_time >= ret.cutoff
       /\ \E tp \in touchpoints : /\ tp.session_id = s.id
                                  /\ tp.event_type = event_type}
StageById(id) == CHOOSE st \in funnel_stages : st.id = id

\* C7: analyze_funnel returns one entry per registered stage in ascending
\* position order; entry_count is the number of in-window sessions with a
\* touchpoint of the stage's entry_event; exit_count is the entry_count of the
\* next stage, and for the last stage the number of converted in-window
\* sessions with a touchpoint of its entry_event.
C7_FunnelCounts ==
    ret.op = "analyze_funnel" =>
      LET out == ret.out
      IN /\ Len(out) = Cardinality(funnel_stages)
         /\ {out[i].stage_id : i \in 1..Len(out)} = {st.id : st \in funnel_stages}
         /\ \A i \in 1..Len(out) :
              LET st == StageById(out[i].stage_id)
              IN /\ out[i].stage_name = st.name
                 /\ out[i].position = st.position
                 /\ i < Len(out) => out[i].position <= out[i + 1].position
                 /\ out[i].entry_count =
                      Cardinality(InWindowReaching(st.entry_event))
                 /\ out[i].exit_count =
                      IF i < Len(out)
                      THEN out[i + 1].entry_count
                      ELSE Cardinality({s \in InWindowReaching(st.entry_event) :
                                          s.converted = 1})

\* two stages; a session outside the window and one inside, which reached the
\* first stage with two touchpoints and the second, and converted
C7_Witness ==
    /\ ret.op = "analyze_funnel"
    /\ Len(ret.out) = 2
    /\ ret.out[1].entry_count = 1
    /\ ret.out[2].exit_count = 1
    /\ \E s \in sessions : s.start_time < ret.cutoff
    /\ \E tp1, tp2 \in touchpoints :
         /\ tp1 # tp2
         /\ tp1.session_id = tp2.session_id
         /\ tp1.event_type = tp2.event_type
         /\ tp1.event_type = StageById(ret.out[1].stage_id).entry_event

\* the customers with at least one converted session
ConvertedCustomers == {s.customer_id : s \in {t \in sessions : t.converted = 1}}
RECURSIVE SumCounts(_)
SumCounts(segments) ==
    IF Len(segments) = 0 THEN 0
    ELSE Head(segments).customer_count + SumCounts(Tail(segments))

\* C11: with at least one converted session, compute_customer_ltv_segments
\* returns buckets segments; the ranges start at the lowest customer total,
\* each ends where the next starts and the last one reaches the highest
\* total; every customer with a converted session lies in exactly one range
\* ([lo, hi), the last [lo, hi]) and the customer_count values sum to the
\* number of these customers.
C11_LtvSegments ==
    (ret.op = "compute_customer_ltv_segments" /\ ConvertedCustomers # {}) =>
      LET n == ret.buckets
      IN /\ Len(ret.out) = n
         /\ lo(0, n) = float(min_ltv)
         /\ \A i \in 0..(n - 2) : hi(i, n) = lo(i + 1, n)
         /\ float_le(float(max_ltv), hi(n - 1, n))
         /\ \A c \in ConvertedCustomers :
              Cardinality({i \in 0..(n - 1) : c \in members(i, n)}) = 1
         /\ SumCounts(ret.out) = Cardinality(ConvertedCustomers)

\* C12: the counts in reasons, in time_of_day and in by_channel of
\* analyze_dropoffs(stage_id) each sum to total_dropoffs, which is the number
\* of DropoffEvents stored with that stage_id.
C12_DropoffBreakdowns ==
    ret.op = "analyze_dropoffs" =>
      LET out == ret.out
      IN /\ out.total_dropoffs =
              Cardinality({de \in dropoff_events : de.stage_id = out.stage_id})
         /\ sum_values(out.reasons) = out.total_dropoffs
         /\ sum_values(out.time_of_day) = out.total_dropoffs
         /\ sum_values(out.by_channel) = out.total_dropoffs

PathsSigned(signature) ==
    {p \in conversion_paths : p.path_signature = signature}

InWindow == {s \in sessions : s.start_time >= ret.cutoff}

\* C14: get_channel_attribution returns exactly one row per distinct channel
\* of the in-window sessions, open or closed; sessions is the number of
\* in-window sessions of the channel and is positive, conversions the number
\* of converted ones among them, conversion_rate lies in [0, 100] (in
\* hundredths), avg_value is absent (NULL) when the channel has no converted
\* session and is the rounded mean value of the converted ones otherwise; the
\* sessions values sum to the number of in-window sessions.
C14_ChannelAttribution ==
    ret.op = "get_channel_attribution" =>
      LET out == ret.out
          sessions_of == [i \in 1..Len(out) |-> out[i].sessions]
      IN /\ {out[i].channel : i \in 1..Len(out)} = {s.channel : s \in InWindow}
         /\ Len(out) = Cardinality({s.channel : s \in InWindow})
         /\ \A i \in 1..Len(out) :
              LET rows == {s \in InWindow : s.channel = out[i].channel}
                  won == {s \in rows : s.converted = 1}
              IN /\ out[i].sessions = Cardinality(rows)
                 /\ out[i].sessions > 0
                 /\ out[i].conversions = Cardinality(won)
                 /\ 0 <= out[i].conversion_rate
                 /\ out[i].conversion_rate <= 10000
                 /\ (won = {}) <=> (out[i].avg_value = NULL)
                 /\ won # {} =>
                      /\ 100 * sum_conversion_value(won) - 50 * Cardinality(won)
                           <= Cardinality(won) * out[i].avg_value
                      /\ Cardinality(won) * out[i].avg_value
                           <= 100 * sum_conversion_value(won) + 50 * Cardinality(won)
         /\ sum_of(sessions_of, DOMAIN sessions_of) = Cardinality(InWindow)

\* a session outside the window; inside it, a channel whose session
\* converted and a channel whose session is still open
C14_Witness ==
    /\ ret.op = "get_channel_attribution"
    /\ Len(ret.out) = 2
    /\ \E s \in sessions : s.start_time < ret.cutoff
    /\ ret.out[1].conversions = 1
    /\ ret.out[1].avg_value = 200
    /\ ret.out[2].avg_value = NULL
    /\ \E s \in InWindow : s.channel = ret.out[2].channel /\ s.end_time = NULL

\* the caller has written and not committed yet
InTransaction(c) == calls[c].pc \in {"path", "dropoff", "commit"}

\* C15: calls of record_touchpoint and end_session by two callers exclude
\* each other while they write: never are two callers inside a transaction;
\* the path an end_session call commits lists the stages of the touchpoints
\* the session has at the commit; and of two end_session calls for one
\* session that overlap in time at most one builds a path: a call that was
\* entered while another caller was inside end_session for the session
\* returns a path only if no path of the session was committed since.
C15_SessionWriters ==
    /\ [](\A c, d \in Callers : c # d => ~(InTransaction(c) /\ InTransaction(d)))
    /\ [][\A c \in Callers :
            (calls[c].pc = "commit" /\ calls'[c].pc = "idle"
               /\ ret' # ret /\ ret'.op = "end_session") =>
              /\ LET o == stages_joined(touchpoints_of(ret.out.session_id))'
                 IN ret'.out.stages_visited = [i \in 1..Len(o) |-> o[i].name]
              /\ calls[c].rivals # {} =>
                   {p \in journal.conversion_paths :
                      p.session_id = calls[c].session_id} = calls[c].seen]_vars

\* C16: the session_id of every ConversionPath and of every DropoffEvent is
\* the id of a session; an end_session call with an id that start_session
\* never returned stores neither.
C16_OwnersExist ==
    \A r \in conversion_paths \cup dropoff_events :
        \E s \in sessions : s.id = r.session_id

\* C17: the stage_id of every DropoffEvent is the id of a registered stage
\* whose name is the event's stage_name, also after the stage was defined
\* again.
C17_DropoffStageRegistered ==
    \A de \in dropoff_events :
        \E st \in funnel_stages : st.id = de.stage_id /\ st.name = de.stage_name

\* the sessions of S as end_session leaves them after closing session_id
ClosedBy(S, session_id, call) ==
    { IF s.id = session_id
      THEN [s EXCEPT !.end_time = call.now,
                     !.converted = int(call.converted),
                     !.conversion_value = call.conversion_value]
      ELSE s : s \in S }

====
